---- MODULE Spec2Model ----
(***************************************************************************)
(* Model of the slot-filling dialogue engine FinancialChatbot              *)
(* (src/chatbot.py).  Strings that the code inspects character by          *)
(* character (raw user text, the extractor's reply) are sequences of       *)
(* one-character strings; field names and response messages are strings.   *)
(***************************************************************************)
EXTENDS Integers, Sequences, FiniteSets, TLC

VARIABLES
    fields,         \* self.fields
    current_index,  \* self.current_index
    lastOp,         \* the method called last
    ret,            \* what that call returned (or the exception it raised)
    extracted,      \* what extract_details returned in that call, NotCalled if it was not called
    saves,          \* the outcomes of the save_to_csv calls made in that call, in order
    appendCalls,    \* number of handle_commitments / handle_uploaded_files calls so far
    calls           \* number of process_user_input calls so far, counted in SpecAnswered only

vars == <<fields, current_index, lastOp, ret, extracted, saves, appendCalls, calls>>

-----------------------------------------------------------------------------
(* Bounds *)

\* longest raw user text of a turn in the sessions of SpecTurns
MaxLen == 5
\* number of handle_commitments / handle_uploaded_files calls in one session
MaxAppends == 1
\* number of process_user_input calls in one session of SpecAnswered
MaxCalls == 22

-----------------------------------------------------------------------------
(* Python values *)

None == [tag |-> "None", v |-> <<>>]
Str(s) == [tag |-> "str", v |-> s]
List(l) == [tag |-> "list", v |-> l]

\* the characters str.strip() and str.split() treat as whitespace
Whitespace == {" ", "\t", "\n"}

Chars == {"a", " "}

TextsUpTo(n) == UNION {[1..k -> Chars] : k \in 0..n}

RawTexts == TextsUpTo(MaxLen)

\* raw texts of the turns in the sessions of Spec: no token, one, two and three tokens
SampleTexts == {<<>>, <<" ">>, <<"a">>, <<"a", "a", " ", "a">>, <<"a", " ", " ", "a", " ", "a">>}

\* raw texts handed to handle_commitments / handle_uploaded_files
AppendTexts == {<<"a", " ">>}

RECURSIVE lstrip(_)
lstrip(s) == IF s # <<>> /\ Head(s) \in Whitespace THEN lstrip(Tail(s)) ELSE s

RECURSIVE rstrip(_)
rstrip(s) ==
    IF s # <<>> /\ s[Len(s)] \in Whitespace THEN rstrip(SubSeq(s, 1, Len(s) - 1)) ELSE s

strip(s) == rstrip(lstrip(s))

LowerChar(c) ==
    CASE c = "N" -> "n"
      [] c = "O" -> "o"
      [] c = "E" -> "e"
      [] OTHER -> c

lower(s) == [i \in 1..Len(s) |-> LowerChar(s[i])]

\* str.split() without arguments: the maximal runs of non-whitespace
RECURSIVE SplitFrom(_, _, _)
SplitFrom(s, cur, acc) ==
    IF s = <<>>
    THEN IF cur = <<>> THEN acc ELSE Append(acc, cur)
    ELSE IF Head(s) \in Whitespace
         THEN SplitFrom(Tail(s), <<>>, IF cur = <<>> THEN acc ELSE Append(acc, cur))
         ELSE SplitFrom(Tail(s), Append(cur, Head(s)), acc)

split(s) == SplitFrom(s, <<>>, <<>>)

\* ' '.join(parts)
RECURSIVE join(_)
join(parts) ==
    IF parts = <<>> THEN <<>>
    ELSE IF Len(parts) = 1 THEN parts[1]
    ELSE parts[1] \o <<" ">> \o join(Tail(parts))

\* "if extracted_value != '':" in place of "if extracted_value:"
Truthy_NotEmpty(val) == val # Str(<<>>)

\* truth value of "if extracted_value:" for None or a str
Truthy(val) == val # None /\ val.v # <<>>

-----------------------------------------------------------------------------
(* Construction *)

InitialFields ==
    [loan_amount |-> None, promotion_applied |-> None, loan_purpose |-> None,
     how_heard |-> None, first_name |-> None, last_name |-> None,
     membership_status |-> None, account_number |-> None, telephone |-> None,
     email |-> None, date_of_birth |-> None, marital_status |-> None,
     whatsapp_opt_in |-> None, employer_name |-> None, self_employed |-> None,
     primary_income |-> None, additional_income |-> None, total_income |-> None,
     commitments |-> List(<<>>), declaration |-> None,
     uploaded_ids |-> List(<<>>), uploaded_documents |-> List(<<>>),
     reference1_name |-> None, reference1_relation |-> None,
     reference1_address |-> None, reference1_contact |-> None,
     reference1_occupation |-> None, reference2_name |-> None,
     reference2_relation |-> None, reference2_address |-> None,
     reference2_contact |-> None, reference2_occupation |-> None]

conversation_order ==
    <<"first_name", "last_name", "telephone", "email", "date_of_birth",
      "loan_amount", "loan_purpose", "membership_status",
      "marital_status", "employer_name", "self_employed",
      "primary_income", "additional_income",
      "reference1_name", "reference1_relation", "reference1_contact",
      "reference2_name", "reference2_relation", "reference2_contact",
      "declaration", "whatsapp_opt_in">>

\* the value get_next_missing_field returns when no field is outstanding
NoField == "<None>"

\* the value of ret before any call
NoResponse == "<no response>"

\* the value of extracted after a call that did not reach extract_details
NotCalled == [tag |-> "not called", v |-> <<>>]

Completion == "Thank you! Your application has been completed and saved."

\* names[0] on an empty list
IndexError == "IndexError: list index out of range"

-----------------------------------------------------------------------------
(* The extraction collaborator as seen by extract_details *)

\* replies of the chat-completion call: a failure, or a message content
Contents ==
    { <<"N", "o", "n", "e">>, <<" ", "N", "O", "N", "E", " ">>, <<>>, <<" ", "4", "2", " ">> }

LLMReplies == {[ok |-> FALSE, content |-> <<>>]} \cup {[ok |-> TRUE, content |-> c] : c \in Contents}

extract_details(field, reply) ==
    IF ~reply.ok
    THEN None
    ELSE LET extracted_value == strip(reply.content)
         IN  IF lower(extracted_value) # <<"n", "o", "n", "e">> THEN Str(extracted_value) ELSE None

-----------------------------------------------------------------------------
(* Progression *)

\* the loop over conversation_order[current_index:], positions counted from 0
RECURSIVE ScanFrom(_, _)
ScanFrom(f, i) ==
    IF i >= Len(conversation_order) THEN NoField
    ELSE IF f[conversation_order[i + 1]] = None THEN conversation_order[i + 1]
    ELSE ScanFrom(f, i + 1)

\* the scan over the whole of conversation_order
get_next_missing_field_FromStart(f, idx) == ScanFrom(f, 0)

\* the scan over conversation_order[current_index + 1:]
get_next_missing_field_AfterPointer(f, idx) == ScanFrom(f, idx + 1)

\* "for field in self.fields" in place of the scan over conversation_order
get_next_missing_field_AnyKey(f, idx) ==
    IF \E k \in DOMAIN f : f[k] = None
    THEN CHOOSE k \in DOMAIN f : f[k] = None
    ELSE NoField

get_next_missing_field(f, idx) == ScanFrom(f, idx)

questions ==
    [first_name |-> "Could you please tell me your first name?",
     last_name |-> "What is your last name?",
     telephone |-> "What is the best contact number to reach you?",
     email |-> "What is your email address?",
     date_of_birth |-> "When were you born? (Please provide in DD/MM/YYYY format)",
     loan_amount |-> "What loan amount are you looking for and its purpose?",
     loan_purpose |-> "Could you elaborate on the purpose of your loan?",
     membership_status |-> "Are you currently a member of our program?",
     marital_status |-> "What is your marital status?",
     employer_name |-> "Who is your current employer?",
     self_employed |-> "Are you self-employed?",
     primary_income |-> "What is your primary monthly income?",
     additional_income |-> "Do you have any additional sources of income?",
     reference1_name |-> "Could you provide the name of your first reference?",
     reference1_relation |-> "What is your relationship with this reference?",
     reference1_contact |-> "What is the contact number for your first reference?",
     reference2_name |-> "Could you provide the name of your second reference?",
     reference2_relation |-> "What is your relationship with this second reference?",
     reference2_contact |-> "What is the contact number for your second reference?",
     declaration |-> "Do you agree to our terms and conditions?",
     whatsapp_opt_in |-> "Would you like to opt-in for WhatsApp notifications?"]

generate_question(field) ==
    IF field \in DOMAIN questions
    THEN questions[field]
    ELSE "Please provide information about " \o field

-----------------------------------------------------------------------------------------------------------------------------------------------------
(* Persistence *)

SinkOutcomes == {"ok", "failed"}

\* save_to_csv without its try/except
save_to_csv_Propagates(sink) == [raised |-> sink = "failed", log |-> <<sink>>]

\* whatever the sink does is caught and printed: the call returns normally
save_to_csv(sink) == [raised |-> FALSE, log |-> <<sink>>]

Exception == "Exception"

\* self.save_to_csv() before the "if next_field is None:" instead of under it
process_next_field_SaveFirst(f, idx) ==
    LET next_field == get_next_missing_field(f, idx)
    IN  \E sink \in SinkOutcomes :
            LET s == save_to_csv(sink)
            IN  /\ ret' = (IF s.raised THEN Exception
                           ELSE IF next_field = NoField THEN Completion
                           ELSE generate_question(next_field))
                /\ saves' = s.log

\* sets what the call returns and the sink calls it made, for the record f and pointer idx
process_next_field(f, idx) ==
    LET next_field == get_next_missing_field(f, idx)
    IN  IF next_field = NoField
        THEN \E sink \in SinkOutcomes :
                 LET s == save_to_csv(sink)
                 IN  /\ ret' = (IF s.raised THEN Exception ELSE Completion)
                     /\ saves' = s.log
        ELSE /\ ret' = generate_question(next_field)
             /\ saves' = <<>>

-----------------------------------------------------------------------------
(* process_user_input *)

\* names[0] fails when the raw text has no token
StoreRaises(next_field, user_input) ==
    next_field \in {"first_name", "last_name"} /\ split(user_input) = <<>>

\* names[1] in place of ' '.join(names[1:])
StoreExtracted_SecondTokenOnly(f, next_field, user_input, extracted_value) ==
    IF next_field \in {"first_name", "last_name"}
    THEN LET names == split(user_input)
             f1 == [f EXCEPT !["first_name"] = Str(names[1])]
         IN  IF Len(names) > 1
             THEN [f1 EXCEPT !["last_name"] = Str(names[2])]
             ELSE f1
    ELSE [f EXCEPT ![next_field] = extracted_value]

\* the record after the store of lines 137-144
StoreExtracted(f, next_field, user_input, extracted_value) ==
    IF next_field \in {"first_name", "last_name"}
    THEN LET names == split(user_input)
             f1 == [f EXCEPT !["first_name"] = Str(names[1])]
         IN  IF Len(names) > 1
             THEN [f1 EXCEPT !["last_name"] = Str(join(Tail(names)))]
             ELSE f1
    ELSE [f EXCEPT ![next_field] = extracted_value]

\* line 142 outside the "if len(names) > 1:"
AdvanceIndex_AlwaysSkip(idx, next_field, user_input) ==
    IF next_field \in {"first_name", "last_name"} THEN idx + 2 ELSE idx + 1

\* "self.current_index = 1" in place of "self.current_index += 1" at line 147
AdvanceIndex_Assign(idx, next_field, user_input) == 1

\* the skip of line 142 for a target of any name
AdvanceIndex_SkipAnyField(idx, next_field, user_input) ==
    IF Len(split(user_input)) > 1 THEN idx + 2 ELSE idx + 1

\* the pointer after lines 142 and 147
AdvanceIndex(idx, next_field, user_input) ==
    IF next_field \in {"first_name", "last_name"} /\ Len(split(user_input)) > 1
    THEN idx + 2
    ELSE idx + 1

process_user_input(user_input) ==
    LET next_field == get_next_missing_field(fields, current_index)
    IN  /\ lastOp' = "process_user_input"
        /\ UNCHANGED appendCalls
        /\ IF next_field = NoField
           THEN /\ \E sink \in SinkOutcomes :
                       LET s == save_to_csv(sink)
                       IN  /\ ret' = (IF s.raised THEN Exception ELSE Completion)
                           /\ saves' = s.log
                /\ extracted' = NotCalled
                /\ UNCHANGED <<fields, current_index>>
           ELSE \E reply \in LLMReplies :
                    LET extracted_value == extract_details(next_field, reply)
                    IN  /\ extracted' = extracted_value
                        /\ IF Truthy(extracted_value)
                           THEN IF StoreRaises(next_field, user_input)
                                THEN /\ ret' = IndexError
                                     /\ saves' = <<>>
                                     /\ UNCHANGED <<fields, current_index>>
                                ELSE LET f2 == StoreExtracted(fields, next_field, user_input,
                                                              extracted_value)
                                         i2 == AdvanceIndex(current_index, next_field, user_input)
                                     IN  /\ fields' = f2
                                         /\ current_index' = i2
                                         /\ process_next_field(f2, i2)
                           ELSE /\ ret' = generate_question(next_field)
                                /\ saves' = <<>>
                                /\ UNCHANGED <<fields, current_index>>

ProcessTurn == \E t \in RawTexts : process_user_input(t) /\ UNCHANGED calls

ProcessSampleTurn == \E t \in SampleTexts : process_user_input(t) /\ UNCHANGED calls

\* a turn with a non-empty raw text in which the extractor, if called, returns a value
AnsweredTurn ==
    /\ calls < MaxCalls
    /\ calls' = calls + 1
    /\ \E t \in RawTexts \ {<<>>} :
           /\ process_user_input(t)
           /\ (extracted' = NotCalled \/ Truthy(extracted'))

\* a direct call of the getter
GetNextMissingField ==
    /\ ret' = get_next_missing_field(fields, current_index)
    /\ lastOp' = "get_next_missing_field"
    /\ extracted' = NotCalled
    /\ saves' = <<>>
    /\ UNCHANGED <<fields, current_index, appendCalls, calls>>

-----------------------------------------------------------------------------
(* Repeatable fields *)

\* user_input.strip() stored in place of user_input
handle_commitments_Stripped(user_input) ==
    LET f2 == IF fields["commitments"] # None
              THEN [fields EXCEPT !["commitments"] = List(Append(@.v, strip(user_input)))]
              ELSE [fields EXCEPT !["commitments"] = List(<<strip(user_input)>>)]
        i2 == current_index + 1
    IN  /\ appendCalls < MaxAppends
        /\ appendCalls' = appendCalls + 1
        /\ fields' = f2
        /\ current_index' = i2
        /\ process_next_field(f2, i2)
        /\ extracted' = NotCalled
        /\ lastOp' = "handle_commitments"

handle_commitments(user_input) ==
    LET f2 == IF fields["commitments"] # None
              THEN [fields EXCEPT !["commitments"] = List(Append(@.v, user_input))]
              ELSE [fields EXCEPT !["commitments"] = List(<<user_input>>)]
        i2 == current_index + 1
    IN  /\ appendCalls < MaxAppends
        /\ appendCalls' = appendCalls + 1
        /\ fields' = f2
        /\ current_index' = i2
        /\ process_next_field(f2, i2)
        /\ extracted' = NotCalled
        /\ lastOp' = "handle_commitments"

\* the field argument: the two upload lists and a name that is neither
UploadFieldArgs == {"uploaded_ids", "uploaded_documents", "commitments"}

handle_uploaded_files(field, user_input) ==
    LET f2 == IF field = "uploaded_ids"
              THEN [fields EXCEPT !["uploaded_ids"] = List(Append(@.v, user_input))]
              ELSE IF field = "uploaded_documents"
                   THEN [fields EXCEPT !["uploaded_documents"] = List(Append(@.v, user_input))]
                   ELSE fields
        i2 == current_index + 1
    IN  /\ appendCalls < MaxAppends
        /\ appendCalls' = appendCalls + 1
        /\ fields' = f2
        /\ current_index' = i2
        /\ process_next_field(f2, i2)
        /\ extracted' = NotCalled
        /\ lastOp' = "handle_uploaded_files"

HandleCommitments == \E t \in AppendTexts : handle_commitments(t) /\ UNCHANGED calls

HandleUploadedFiles ==
    \E fld \in UploadFieldArgs, t \in AppendTexts : handle_uploaded_files(fld, t) /\ UNCHANGED calls

-----------------------------------------------------------------------------
(* Specifications *)

Init ==
    /\ fields = InitialFields
    /\ current_index = 0
    /\ lastOp = "__init__"
    /\ ret = NoResponse
    /\ extracted = NotCalled
    /\ saves = <<>>
    /\ appendCalls = 0
    /\ calls = 0

\* sessions that use every entry point
Next == ProcessSampleTurn \/ GetNextMissingField \/ HandleCommitments \/ HandleUploadedFiles

Spec == Init /\ [][Next]_vars

\* sessions driven through the main loop alone, as src/main.py drives them, with every
\* raw text up to MaxLen
NextTurns == ProcessTurn \/ GetNextMissingField

SpecTurns == Init /\ [][NextTurns]_vars

\* sessions of the main loop in which every turn is answered
NextAnswered == AnsweredTurn

SpecAnswered == Init /\ [][NextAnswered]_vars

TypeOK ==
    /\ current_index \in 0..(Len(conversation_order) + MaxAppends)
    /\ Len(saves) \in 0..1
    /\ lastOp \in {"__init__", "process_user_input", "get_next_missing_field",
                    "handle_commitments", "handle_uploaded_files"}

-----------------------------------------------------------------------------
(* Vocabulary of the properties, stated without the operators of the model *)

PlanFields == {conversation_order[i] : i \in 1..Len(conversation_order)}

\* plan positions, counted from 0, at or after idx whose field is absent in f
OutstandingFrom(f, idx) ==
    {i \in 0..(Len(conversation_order) - 1) : i >= idx /\ f[conversation_order[i + 1]] = None}

\* no plan field at a position at or after idx is absent in f
NoneOutstanding(f, idx) ==
    \A i \in idx..(Len(conversation_order) - 1) : f[conversation_order[i + 1]] # None

\* the first outstanding plan field at or after idx, NoField if there is none
FirstOutstanding(f, idx) ==
    IF NoneOutstanding(f, idx)
    THEN NoField
    ELSE conversation_order[(CHOOSE i \in idx..(Len(conversation_order) - 1) :
                                /\ f[conversation_order[i + 1]] = None
                                /\ \A j \in idx..(i - 1) : f[conversation_order[j + 1]] # None) + 1]

QuestionTemplates == {questions[fld] : fld \in DOMAIN questions}

\* positions of t where a token starts and where one ends
TokenStarts(t) == {i \in 1..Len(t) : t[i] \notin Whitespace /\ (i = 1 \/ t[i - 1] \in Whitespace)}

TokenEnds(t) ==
    {i \in 1..Len(t) : t[i] \notin Whitespace /\ (i = Len(t) \/ t[i + 1] \in Whitespace)}

KthOf(S, k) == CHOOSE x \in S : Cardinality({y \in S : y < x}) = k - 1

\* the whitespace-separated tokens of t, in order
Tokens(t) ==
    [k \in 1..Cardinality(TokenStarts(t)) |->
        SubSeq(t, KthOf(TokenStarts(t), k), KthOf(TokenEnds(t), k))]

\* the tokens of t after the first, separated by single spaces
RECURSIVE SpaceSeparated(_)
SpaceSeparated(toks) ==
    IF Len(toks) = 0 THEN <<>>
    ELSE IF Len(toks) = 1 THEN toks[1]
    ELSE toks[1] \o <<" ">> \o SpaceSeparated(Tail(toks))

RestOfName(t) == SpaceSeparated(Tail(Tokens(t)))

ResponseOps == {"process_user_input", "handle_commitments", "handle_uploaded_files"}

-----------------------------------------------------------------------------
(* Properties *)

\* C1: whenever a call returns the completion message, every field of the
\* collection plan holds a non-absent value in the record.
C1_CompletionHasEveryPlanField ==
    ret = Completion => \A fld \in PlanFields : fields[fld] # None

\* C2: when the extractor gives nothing for the target (the absence marker or a
\* failure), process_user_input returns the target's own question, which is the
\* question the preceding call returned, and changes neither record nor pointer.
C2_AbsentReprompts ==
    [][(lastOp' = "process_user_input" /\ extracted' = None)
        => /\ ~NoneOutstanding(fields, current_index)
           /\ ret' = generate_question(FirstOutstanding(fields, current_index))
           /\ fields' = fields
           /\ current_index' = current_index
           /\ (lastOp \in ResponseOps /\ ret # IndexError => ret' = ret)
           /\ (lastOp = "get_next_missing_field" => ret' = generate_question(ret))]_vars

C2_Witness ==
    /\ lastOp = "process_user_input"
    /\ extracted = None
    /\ current_index = 3
    /\ ret = questions["email"]

\* C3: after handle_commitments or handle_uploaded_files the pointer is at most
\* the position of the first plan field whose value is absent.
C3_AppendStopsAtOutstanding ==
    lastOp \in {"handle_commitments", "handle_uploaded_files"}
        => \A i \in OutstandingFrom(fields, 0) : current_index <= i

\* C4: process_user_input always returns a question template or the completion
\* message; it never raises.
C4_TurnNeverRaises ==
    lastOp = "process_user_input" => ret \in QuestionTemplates \cup {Completion}

\* C5: a turn that targets first_name, extracts a value and has two or more
\* tokens sets first_name to the first token, last_name to the remaining tokens
\* joined by single spaces, and advances the pointer by two.
C5_FullNameFillsBoth ==
    [][(/\ lastOp' = "process_user_input"
        /\ FirstOutstanding(fields, current_index) = "first_name"
        /\ Truthy(extracted'))
        => \A t \in RawTexts :
               (process_user_input(t) /\ Len(Tokens(t)) >= 2)
                   => /\ fields'["first_name"] = Str(Tokens(t)[1])
                      /\ fields'["last_name"] = Str(RestOfName(t))
                      /\ current_index' = current_index + 2]_vars

C5_Witness ==
    /\ lastOp = "process_user_input"
    /\ current_index = 2
    /\ fields["first_name"] = Str(<<"a">>)
    /\ fields["last_name"] = Str(<<"a", " ", "a">>)
    /\ ret = questions["telephone"]

\* C6: a turn that targets first_name, extracts a value and has a single token
\* fills first_name only, advances the pointer by one, and answers with the
\* question of last_name, which is then the next outstanding field.
C6_SingleTokenFillsFirstOnly ==
    [][(/\ lastOp' = "process_user_input"
        /\ FirstOutstanding(fields, current_index) = "first_name"
        /\ Truthy(extracted'))
        => \A t \in RawTexts :
               (process_user_input(t) /\ Len(Tokens(t)) = 1)
                   => /\ fields' = [fields EXCEPT !["first_name"] = Str(Tokens(t)[1])]
                      /\ current_index' = current_index + 1
                      /\ FirstOutstanding(fields', current_index') = "last_name"
                      /\ ret' = questions["last_name"]]_vars

C6_Witness ==
    /\ lastOp = "process_user_input"
    /\ Truthy(extracted)
    /\ current_index = 1
    /\ fields["first_name"] = Str(<<"a", "a">>)
    /\ fields["last_name"] = None
    /\ ret = questions["last_name"]

\* C7: a turn whose target is a plan field other than first_name, that extracts
\* a value and returns, assigns that value to the target and changes no other field.
C7_StoreOnlyTarget ==
    [][(/\ lastOp' = "process_user_input"
        /\ FirstOutstanding(fields, current_index) \in PlanFields \ {"first_name"}
        /\ Truthy(extracted')
        /\ ret' # IndexError)
        => fields' = [fields EXCEPT ![FirstOutstanding(fields, current_index)] = extracted']]_vars

\* C8: once no plan field is outstanding none ever is again, and every
\* process_user_input call from then on calls the sink once and returns the
\* completion message, without calling the extractor or changing record or pointer.
C8_CompletionAbsorbing ==
    [][NoneOutstanding(fields, current_index)
        => /\ NoneOutstanding(fields', current_index')
           /\ (lastOp' = "process_user_input"
                  => /\ ret' = Completion
                     /\ Len(saves') = 1
                     /\ extracted' = NotCalled
                     /\ fields' = fields
                     /\ current_index' = current_index)]_vars

C8_Witness ==
    /\ lastOp = "process_user_input"
    /\ extracted = NotCalled
    /\ ret = Completion
    /\ saves = <<"ok">>

\* C9: get_next_missing_field returns the first plan field at a position at or
\* after the pointer whose value is absent, NoField if there is none; it changes
\* neither record nor pointer, and a second call in a row returns the same.
C9_NextMissingIsFirstOutstanding ==
    [][lastOp' = "get_next_missing_field"
        => /\ ret' = FirstOutstanding(fields, current_index)
           /\ (current_index >= Len(conversation_order) => ret' = NoField)
           /\ fields' = fields
           /\ current_index' = current_index
           /\ (lastOp = "get_next_missing_field" => ret' = ret)]_vars

C9_Witness ==
    /\ lastOp = "get_next_missing_field"
    /\ fields["last_name"] = None
    /\ current_index = 2
    /\ ret = "telephone"

\* C10: a call in which the sink fails still returns the completion message,
\* and a process_user_input call that found no outstanding field leaves record
\* and pointer as they were.
C10_SinkFailureStillCompletes ==
    [][saves' = <<"failed">>
        => /\ ret' = Completion
           /\ (lastOp' = "process_user_input" /\ NoneOutstanding(fields, current_index)
                  => fields' = fields /\ current_index' = current_index)]_vars

C10_Witness ==
    /\ lastOp = "process_user_input"
    /\ extracted = NotCalled
    /\ saves = <<"failed">>
    /\ ret = Completion

\* the record f with the raw text t added at the end of the list at key
WithAppended(f, key, t) == [f EXCEPT ![key] = List(Append(f[key].v, t))]

\* C11: handle_commitments and handle_uploaded_files leave every plan field as it
\* was and do not call the extractor; handle_commitments changes the record only
\* by adding the raw text, as given, at the end of commitments, and
\* handle_uploaded_files only by adding it at the end of one upload list, or not at all.
C11_AppendLeavesPlanFields ==
    [][(lastOp' \in {"handle_commitments", "handle_uploaded_files"} /\ appendCalls' # appendCalls)
        => /\ \A fld \in PlanFields : fields'[fld] = fields[fld]
           /\ extracted' = NotCalled
           /\ (lastOp' = "handle_commitments"
                  => \E t \in AppendTexts : fields' = WithAppended(fields, "commitments", t))
           /\ (lastOp' = "handle_uploaded_files"
                  => \/ fields' = fields
                     \/ \E t \in AppendTexts, key \in {"uploaded_ids", "uploaded_documents"} :
                            fields' = WithAppended(fields, key, t))]_vars

C11_Witness ==
    /\ lastOp = "handle_commitments"
    /\ fields["commitments"] = List(<< <<"a", " ">> >>)
    /\ fields["first_name"] = Str(<<"a">>)
    /\ fields["telephone"] = None
    /\ current_index = 3

\* C12: no call ever leaves the pointer smaller than it found it.
C12_PointerNeverDecreases ==
    [][current_index' >= current_index]_vars

C12_Witness ==
    /\ lastOp = "process_user_input"
    /\ Truthy(extracted)
    /\ appendCalls = 1
    /\ current_index = 5
    /\ ret = questions["loan_amount"]

\* C13: a turn that extracts a value and returns advances the pointer by one,
\* or by two exactly when the target is first_name and the raw text has two or
\* more tokens; a turn that targets last_name advances it by one.
C13_AdvanceByOneOrTwo ==
    [][(/\ lastOp' = "process_user_input"
        /\ Truthy(extracted')
        /\ ret' # IndexError)
        => \A t \in RawTexts :
               process_user_input(t)
                   => current_index' = current_index +
                          (IF /\ FirstOutstanding(fields, current_index) = "first_name"
                              /\ Len(Tokens(t)) >= 2
                           THEN 2 ELSE 1)]_vars

\* C14: a plan field that holds a value keeps that value in every later call.
C14_FilledFieldsKeepValue ==
    [][\A fld \in PlanFields : fields[fld] # None => fields'[fld] = fields[fld]]_vars

\* C15: a turn that extracts a value answers from the state it leaves: with the
\* question of the first field then outstanding, or, if there is none, with the
\* completion message after one call of the sink.
C15_ResponseFromPostState ==
    [][(lastOp' = "process_user_input" /\ Truthy(extracted'))
        => IF NoneOutstanding(fields', current_index')
           THEN ret' = Completion /\ Len(saves') = 1
           ELSE ret' = generate_question(FirstOutstanding(fields', current_index'))
                /\ saves' = <<>>]_vars

\* C16: a call of process_user_input or of an append handler calls the sink at
\* most once, and calls it exactly when it returns the completion message.
C16_SaveIffCompletion ==
    lastOp \in ResponseOps
        => /\ Len(saves) <= 1
           /\ (Len(saves) = 1 <=> ret = Completion)

C16_Witness ==
    /\ lastOp = "process_user_input"
    /\ Truthy(extracted)
    /\ ret = Completion
    /\ Len(saves) = 1
    /\ current_index = Len(conversation_order)

\* the record's keys that are not in the collection plan
OffPlanFields == DOMAIN InitialFields \ PlanFields

PlanQuestions == {questions[fld] : fld \in PlanFields}

\* C17: in sessions of process_user_input calls every response is the completion
\* message or the question of a plan field, and every field outside the plan
\* keeps the value it was constructed with.
C17_MainLoopStaysInPlan ==
    /\ \A k \in OffPlanFields : fields[k] = InitialFields[k]
    /\ (lastOp = "process_user_input" /\ ret # IndexError
           => ret \in PlanQuestions \cup {Completion})

C17_Witness ==
    /\ lastOp = "process_user_input"
    /\ Truthy(extracted)
    /\ current_index = 13
    /\ fields["additional_income"] # None
    /\ fields["total_income"] = None
    /\ fields["commitments"] = List(<<>>)
    /\ ret = questions["reference1_name"]

\* C18: in sessions of process_user_input calls every plan field at a position
\* below the pointer holds a value.
C18_NoUnfilledFieldBelowPointer ==
    \A i \in 0..(Len(conversation_order) - 1) :
        i < current_index => fields[conversation_order[i + 1]] # None

\* C20: the pointer is never negative; as long as no append handler has been
\* called it is at most the length of the plan; and when it is beyond the end of
\* the plan get_next_missing_field returns None.
C20_PointerWithinPlan ==
    /\ current_index >= 0
    /\ (appendCalls = 0 => current_index <= Len(conversation_order))
    /\ (current_index > Len(conversation_order)
           => get_next_missing_field(fields, current_index) = NoField)

C20_Witness ==
    /\ lastOp \in {"handle_commitments", "handle_uploaded_files"}
    /\ appendCalls = 1
    /\ current_index = Len(conversation_order) + 1
    /\ ret = Completion

\* C19: when every process_user_input call gets a non-empty raw text and the
\* extractor returns a value on every call, the completion message is returned
\* within as many calls as the plan has fields.
C19_CompletesWithinPlanLength ==
    calls >= Len(conversation_order) => ret = Completion
====
